---- MODULE Spec2Model ----
(***************************************************************************)
(* Model of MyMultiHopQuery._generate_scenarios, the custom multi-hop      *)
(* scenario generator of docs/howtos/customizations/testgenerator/         *)
(* testgen-customisation.ipynb.  One call of the coroutine is modelled,    *)
(* statement by statement, together with the library operations it calls  *)
(* (graph query, theme/persona matching prompt, prepare_combinations,      *)
(* sample_diverse_combinations).                                           *)
(***************************************************************************)
EXTENDS Integers, Sequences, FiniteSets, TLC

\* ---------------------------------------------------------------- bounds
\* largest n passed to _generate_scenarios (the smallest is -1)
MaxN == 4
\* largest number of relationships of the notebook's global graph kg
MaxRels == 3
\* largest number of relationships of a graph passed as knowledge_graph
MaxArgRels == 1

\* ------------------------------------------------------------- constants
\* the relationship type the notebook's lambda selects
KeyphrasesOverlap == "keyphrases_overlap"

\* the names of the two personas of the notebook (person1, persona2)
persona_list == <<"gitlab employee", "Hiring manager at gitlab">>

\* a non-empty overlapped_items of a relationship: a list of (keyphrase,
\* keyphrase) pairs
OverlappedItems == << <<"hiring", "hiring policy">> >>

\* the relationships a graph may hold
RelKinds ==
    { [type |-> KeyphrasesOverlap, overlapped_items |-> OverlappedItems],
      [type |-> KeyphrasesOverlap, overlapped_items |-> <<>>],
      [type |-> "entities_overlap", overlapped_items |-> OverlappedItems] }

\* a graph is the list of its relationships; the relationship at position p
\* joins the nodes 2p-1 and 2p
Graphs(max) == UNION { [1..l -> RelKinds] : l \in 0..max }

VARIABLES
    kg,                     \* the notebook's global knowledge graph
    pc,                     \* position of the coroutine
    n,                      \* argument n
    knowledge_graph,        \* argument knowledge_graph
    results,                \* local: the qualifying triplets
    num_sample_per_triplet, \* local: the per-triplet quota
    scenarios,              \* local: the result list
    idx,                    \* position of the for loop in results (1-based)
    pending,                \* prompt calls issued and not yet returned
    persona_concepts,       \* local: the mapping returned by the prompt
    base_scenarios,         \* local: combinations, then the sample
    calls,                  \* the library calls made so far, in order
    exception               \* the exception that left the coroutine, if any

vars == <<kg, pc, n, knowledge_graph, results, num_sample_per_triplet,
          scenarios, idx, pending, persona_concepts, base_scenarios, calls,
          exception>>

\* ------------------------------------------------------ pure operations
\* Python's max(a, b)
Max(a, b) == IF a >= b THEN a ELSE b

\* Python's a // b: floor division, ZeroDivisionError when b = 0
FloorDivNoCheck(a, b) ==
    IF b = 0 THEN [ok |-> TRUE, val |-> 0] ELSE [ok |-> TRUE, val |-> a \div b]

FloorDiv(a, b) ==
    IF b = 0 THEN [ok |-> FALSE, val |-> 0] ELSE [ok |-> TRUE, val |-> a \div b]

\* max(1, n // len(results)) without the max
NumSampleNoFloor(q) == q

\* max(1, n // len(results)) with a ceiling division's result one too high
NumSampleCeil(q) == Max(1, q + 1)

\* num_sample_per_triplet = max(1, <quotient>)
NumSamplePerTriplet(q) == Max(1, q)

\* the lambda passed as relationship_condition, accepting every relationship
RelationshipConditionAny(rel) == TRUE

\* the lambda passed as relationship_condition
RelationshipCondition(rel) == rel.type = KeyphrasesOverlap

\* the relationships the condition passed to the graph query accepts
Accepted == {rel \in RelKinds : RelationshipCondition(rel)}

\* KnowledgeGraph.find_two_nodes_single_rel: the (node_a, rel, node_b)
\* triplets of the relationships that satisfy the condition (given as the
\* set of relationships it accepts), in graph order
FindTwoNodesSingleRel(graph, accepted) ==
    LET triplets == [p \in 1..Len(graph) |-> <<2 * p - 1, graph[p], 2 * p>>]
        Test(t) == t[2] \in accepted
    IN  SelectSeq(triplets, Test)

\* the guard of the loop body, letting one more triplet through
LoopGuardInclusive(len, bound) == len <= bound

\* if len(scenarios) < n
LoopGuard(len, bound) == len < bound

\* truth value of a list, taken as always true
TruthyAlways(items) == TRUE

\* if overlapped_keywords: a list is true when it is not empty
Truthy(items) == Len(items) > 0

\* list(dict(overlapped_keywords).keys()): the first components, each once,
\* in the order of their first occurrence
RECURSIVE DictKeys(_)
DictKeys(items) ==
    IF Len(items) = 0 THEN <<>>
    ELSE LET front == DictKeys(SubSeq(items, 1, Len(items) - 1))
             key == items[Len(items)][1]
         IN  IF \E j \in 1..Len(front) : front[j] = key
             THEN front ELSE Append(front, key)

\* the mappings the prompt may return for the given themes and personas:
\* every persona is matched with some of the themes
Mappings(themes, personas) ==
    [ {personas[j] : j \in 1..Len(personas)}
        -> SUBSET {themes[j] : j \in 1..Len(themes)} ]

\* prepare_combinations: one entry per overlapped pair, holding the nodes
\* and the personas whose mapped themes meet the pair
PrepareCombinations(nodes, combinations, personas, mapping) ==
    [ c \in 1..Len(combinations) |->
        [ combination |-> combinations[c],
          nodes |-> nodes,
          personas |-> SelectSeq(personas,
              LAMBDA p : \E j \in 1..Len(combinations[c]) :
                            combinations[c][j] \in mapping[p]) ] ]

\* the candidate scenarios of a list of entries: one per entry and persona
RECURSIVE Expand(_)
Expand(data) ==
    IF Len(data) = 0 THEN <<>>
    ELSE Expand(SubSeq(data, 1, Len(data) - 1)) \o
         LET e == data[Len(data)]
         IN  [ j \in 1..Len(e.personas) |->
                 [ nodes |-> e.nodes, combination |-> e.combination,
                   persona |-> e.personas[j] ] ]

\* the elements of s at the positions in S, in order
RECURSIVE Pick(_, _)
Pick(s, S) ==
    IF S = {} THEN <<>>
    ELSE LET m == CHOOSE x \in S : \A y \in S : x <= y
         IN  <<s[m]>> \o Pick(s, S \ {m})

\* sample_diverse_combinations: any num_samples of the candidate scenarios,
\* all of them when there are fewer
SampleDiverseCombinations(data, num_samples) ==
    LET cand == Expand(data)
        size == IF num_samples <= Len(cand) THEN num_samples ELSE Len(cand)
    IN  { Pick(cand, S) : S \in { T \in SUBSET (1..Len(cand)) : Cardinality(T) = size } }

\* scenarios.extend(base_scenarios), written the wrong way round
ExtendFront(list, more) == more \o list

\* scenarios.extend(base_scenarios)
Extend(list, more) == list \o more

\* ---------------------------------------------------------------- state
Init ==
    /\ kg \in Graphs(MaxRels)
    /\ pc = "start"
    /\ n = 0
    /\ knowledge_graph = <<>>
    /\ results = <<>>
    /\ num_sample_per_triplet = 0
    /\ scenarios = <<>>
    /\ idx = 0
    /\ pending = {}
    /\ persona_concepts = [p \in {} |-> {}]
    /\ base_scenarios = <<>>
    /\ calls = <<>>
    /\ exception = "none"

\* the triplet the loop is at
triplet == results[idx]

\* node_a, node_b = triplet[0], triplet[-1]
node_a == triplet[1]
node_b == triplet[3]

\* overlapped_keywords = triplet[1].properties["overlapped_items"]
overlapped_keywords == triplet[2].overlapped_items

\* --------------------------------------------------------------- actions
\* the call, up to the first iteration of the loop: the graph query, the
\* quota (or the ZeroDivisionError) and scenarios = []
GenerateScenarios(arg_n, arg_kg) ==
    /\ pc = "start"
    /\ n' = arg_n
    /\ knowledge_graph' = arg_kg
    /\ LET res == FindTwoNodesSingleRel(kg, Accepted)
           quot == FloorDiv(arg_n, Len(res))
       IN  /\ results' = res
           /\ IF quot.ok
              THEN /\ num_sample_per_triplet' = NumSamplePerTriplet(quot.val)
                   /\ idx' = 1
                   /\ pc' = "loop"
                   /\ exception' = exception
              ELSE /\ pc' = "raised"
                   /\ exception' = "ZeroDivisionError"
                   /\ UNCHANGED <<num_sample_per_triplet, idx>>
    /\ scenarios' = <<>>
    /\ UNCHANGED <<kg, pending, persona_concepts, base_scenarios, calls>>

\* an iteration whose body does nothing: the list is full or the triplet
\* has no overlapped items
SkipTriplet ==
    /\ pc = "loop"
    /\ idx <= Len(results)
    /\ ~ (LoopGuard(Len(scenarios), n) /\ Truthy(overlapped_keywords))
    /\ idx' = idx + 1
    /\ UNCHANGED <<kg, pc, n, knowledge_graph, results, num_sample_per_triplet,
                   scenarios, pending, persona_concepts, base_scenarios,
                   calls, exception>>

\* the prompt call started and its result used without waiting for it
PromptGenerateNoAwait ==
    /\ pc = "loop"
    /\ idx <= Len(results)
    /\ LoopGuard(Len(scenarios), n)
    /\ Truthy(overlapped_keywords)
    /\ pending' = pending \cup {idx}
    /\ calls' = Append(calls, [op |-> "prompt", i |-> idx,
                               themes |-> DictKeys(overlapped_keywords),
                               personas |-> persona_list])
    /\ pc' = "prepare"
    /\ persona_concepts' = [p \in {persona_list[j] : j \in 1..Len(persona_list)} |-> {}]
    /\ UNCHANGED <<kg, n, knowledge_graph, results, num_sample_per_triplet,
                   scenarios, idx, base_scenarios, exception>>

\* themes, prompt_input and the call of theme_persona_matching_prompt.generate
PromptGenerate ==
    /\ pc = "loop"
    /\ idx <= Len(results)
    /\ LoopGuard(Len(scenarios), n)
    /\ Truthy(overlapped_keywords)
    /\ pending' = pending \cup {idx}
    /\ calls' = Append(calls, [op |-> "prompt", i |-> idx,
                               themes |-> DictKeys(overlapped_keywords),
                               personas |-> persona_list])
    /\ pc' = "await"
    /\ UNCHANGED <<kg, n, knowledge_graph, results, num_sample_per_triplet,
                   scenarios, idx, persona_concepts, base_scenarios, exception>>

\* the awaited prompt call returns a mapping
PromptReturn ==
    /\ pc = "await"
    /\ \E i \in pending :
         \E mapping \in Mappings(DictKeys(results[i][2].overlapped_items), persona_list) :
            /\ pending' = pending \ {i}
            /\ persona_concepts' = mapping
            /\ calls' = Append(calls, [op |-> "prompt_return", i |-> i,
                                       mapping |-> mapping])
    /\ pc' = "prepare"
    /\ UNCHANGED <<kg, n, knowledge_graph, results, num_sample_per_triplet,
                   scenarios, idx, base_scenarios, exception>>

\* base_scenarios = self.prepare_combinations(...)
Prepare ==
    /\ pc = "prepare"
    /\ base_scenarios' = PrepareCombinations(<<node_a, node_b>>,
                             overlapped_keywords, persona_list, persona_concepts)
    /\ calls' = Append(calls, [op |-> "prepare", i |-> idx,
                               nodes |-> <<node_a, node_b>>,
                               mapping |-> persona_concepts,
                               ret |-> base_scenarios'])
    /\ pc' = "sample"
    /\ UNCHANGED <<kg, n, knowledge_graph, results, num_sample_per_triplet,
                   scenarios, idx, pending, persona_concepts, exception>>

\* base_scenarios = self.sample_diverse_combinations(base_scenarios, quota)
Sample ==
    /\ pc = "sample"
    /\ \E s \in SampleDiverseCombinations(base_scenarios, num_sample_per_triplet) :
         /\ base_scenarios' = s
         /\ calls' = Append(calls, [op |-> "sample", i |-> idx,
                                    data |-> base_scenarios,
                                    k |-> num_sample_per_triplet,
                                    ret |-> s])
    /\ pc' = "extend"
    /\ UNCHANGED <<kg, n, knowledge_graph, results, num_sample_per_triplet,
                   scenarios, idx, pending, persona_concepts, exception>>

\* scenarios.extend(base_scenarios), and on to the next triplet
ExtendScenarios ==
    /\ pc = "extend"
    /\ scenarios' = Extend(scenarios, base_scenarios)
    /\ calls' = Append(calls, [op |-> "extend", i |-> idx,
                               added |-> base_scenarios])
    /\ idx' = idx + 1
    /\ pc' = "loop"
    /\ UNCHANGED <<kg, n, knowledge_graph, results, num_sample_per_triplet,
                   pending, persona_concepts, base_scenarios, exception>>

\* return scenarios
Return ==
    /\ pc = "loop"
    /\ idx > Len(results)
    /\ pc' = "done"
    /\ UNCHANGED <<kg, n, knowledge_graph, results, num_sample_per_triplet,
                   scenarios, idx, pending, persona_concepts, base_scenarios,
                   calls, exception>>

\* the graphs a caller may pass: the global graph itself, or another graph
\* made of relationships of the selected type with overlapped items (the
\* body never reads the argument, so its relationships need no variety)
ArgGraphs ==
    {kg} \cup
    { [p \in 1..l |-> [type |-> KeyphrasesOverlap,
                       overlapped_items |-> OverlappedItems]] : l \in 0..MaxArgRels }

Next ==
    \/ \E arg_n \in -1..MaxN : \E arg_kg \in ArgGraphs :
          GenerateScenarios(arg_n, arg_kg)
    \/ SkipTriplet
    \/ PromptGenerate
    \/ PromptReturn
    \/ Prepare
    \/ Sample
    \/ ExtendScenarios
    \/ Return

Spec == Init /\ [][Next]_vars

\* ------------------------------------------------- reading the call log
\* the calls made for the triplet at position i, in order
EventsOf(i) == SelectSeq(calls, LAMBDA e : e.i = i)

\* the names of the operations of a list of calls
Ops(events) == [j \in 1..Len(events) |-> events[j].op]

\* the library steps of one processed triplet
Steps == <<"prompt", "prompt_return", "prepare", "sample", "extend">>

IsPrefix(s, t) == Len(s) <= Len(t) /\ \A j \in 1..Len(s) : s[j] = t[j]

\* the triplet at position i has been processed to its end
Appended(i) == \E j \in 1..Len(calls) : calls[j].op = "extend" /\ calls[j].i = i

\* the sample drawn for the triplet at position i
SampleOf(i) == EventsOf(i)[4].ret

\* the samples of the triplets 1..i that have been appended, concatenated
RECURSIVE SamplesUpTo(_)
SamplesUpTo(i) ==
    IF i = 0 THEN <<>>
    ELSE SamplesUpTo(i - 1) \o (IF Appended(i) THEN SampleOf(i) ELSE <<>>)

\* the coroutine is past the quota computation
Running == pc \notin {"start", "raised"}

\* ------------------------------------------------------------ properties
\* C1: for n >= 0 the result list never holds more than n scenarios, in the
\* returned list and in every intermediate state of the loop.
C1_AtMostN == (Running /\ n >= 0) => Len(scenarios) <= n

C1_Witness ==
    pc = "done" /\ n >= 2 /\ Len(results) >= 2 /\ Len(scenarios) = n

\* C2: for n >= 1, when every qualifying triplet has overlapped items and
\* every sampled triplet had at least quota candidates, the returned list has
\* exactly n scenarios.
C2_ExactlyN ==
    ( /\ pc = "done"
      /\ n >= 1
      /\ \A i \in 1..Len(results) : Len(results[i][2].overlapped_items) > 0
      /\ \A j \in 1..Len(calls) :
            calls[j].op = "sample" => Len(Expand(calls[j].data)) >= calls[j].k )
    => Len(scenarios) = n

\* C3: the quota is max(1, n div R), is at least 1, does not change after it
\* was computed, and every processed triplet appends at most quota scenarios,
\* exactly quota when it has at least quota candidates.
C3_QuotaInv ==
    Running =>
        /\ num_sample_per_triplet >= 1
        /\ num_sample_per_triplet =
              (IF n \div Len(results) >= 1 THEN n \div Len(results) ELSE 1)
        /\ \A i \in 1..Len(results) :
              Appended(i) =>
                 LET ev == EventsOf(i)
                     avail == Len(Expand(ev[4].data))
                 IN  /\ Len(ev[5].added) <= num_sample_per_triplet
                     /\ avail >= num_sample_per_triplet
                           => Len(ev[5].added) = num_sample_per_triplet

C3_Quota ==
    /\ []C3_QuotaInv
    /\ [][pc # "start" => num_sample_per_triplet' = num_sample_per_triplet]_vars

C3_Witness ==
    /\ pc = "done"
    /\ num_sample_per_triplet = 2
    /\ \E i \in 1..Len(results) : Appended(i) /\ Len(EventsOf(i)[5].added) = 2
    /\ \E i \in 1..Len(results) : Appended(i) /\ Len(EventsOf(i)[5].added) = 0

\* C4: the calls made for a triplet are, in this order and each once: the
\* prompt with the triplet's themes and the personas, its return,
\* prepare_combinations with the two end nodes and the returned mapping,
\* sample_diverse_combinations on that result with the quota, and the append
\* of the sample; between two triplets every started triplet is complete.
C4_StepOrder ==
    /\ \A j \in 1..Len(calls) : calls[j].i \in 1..Len(results)
    /\ \A i \in 1..Len(results) :
          LET ev == EventsOf(i)
              items == results[i][2].overlapped_items
          IN  /\ IsPrefix(Ops(ev), Steps)
              /\ pc \in {"loop", "done"} => Len(ev) \in {0, Len(Steps)}
              /\ Len(ev) >= 1 =>
                    /\ {ev[1].themes[j] : j \in 1..Len(ev[1].themes)}
                          = {items[j][1] : j \in 1..Len(items)}
                    /\ \A j, k \in 1..Len(ev[1].themes) :
                          ev[1].themes[j] = ev[1].themes[k] => j = k
                    /\ ev[1].personas = persona_list
              /\ Len(ev) >= 3 =>
                    /\ ev[3].nodes = <<results[i][1], results[i][3]>>
                    /\ ev[3].mapping = ev[2].mapping
              /\ Len(ev) >= 4 =>
                    /\ ev[4].data = ev[3].ret
                    /\ ev[4].k = num_sample_per_triplet
              /\ Len(ev) >= 5 => ev[5].added = ev[4].ret

C4_Witness ==
    /\ pc = "done"
    /\ \E i \in 1..Len(results) : Appended(i) /\ Len(EventsOf(i)[5].added) >= 1
    /\ Len(calls) >= 2 * Len(Steps)

\* C5: every scenario comes from the two end nodes of a relationship of type
\* "keyphrases_overlap", and every library call is made for such a triplet.
C5_OnlyKeyphrasesOverlap ==
    /\ \A j \in 1..Len(scenarios) :
          \E p \in 1..Len(kg) :
             /\ kg[p].type = "keyphrases_overlap"
             /\ scenarios[j].nodes = <<2 * p - 1, 2 * p>>
    /\ \A j \in 1..Len(calls) :
          \E p \in 1..Len(kg) :
             /\ kg[p].type = "keyphrases_overlap"
             /\ results[calls[j].i] = <<2 * p - 1, kg[p], 2 * p>>

C5_Witness ==
    /\ pc = "done"
    /\ Len(scenarios) >= 1
    /\ \E p \in 1..Len(kg) :
          kg[p].type # "keyphrases_overlap" /\ Len(kg[p].overlapped_items) > 0

\* C6: the triplets the call works on are those of the graph passed as the
\* knowledge_graph argument.
C6_UsesArgumentGraph ==
    pc # "start" =>
        results = FindTwoNodesSingleRel(knowledge_graph, Accepted)

\* C7: with no qualifying triplet the call ends in an uncaught
\* ZeroDivisionError: it never returns, makes no library call and produces no
\* scenario.
C7_ZeroDivision ==
    (pc # "start" /\ Len(results) = 0) =>
        /\ pc = "raised"
        /\ exception = "ZeroDivisionError"
        /\ calls = <<>>
        /\ scenarios = <<>>
        /\ pending = {}

C7_Witness ==
    pc = "raised" /\ n >= 1 /\ Len(kg) >= 2 /\ exception = "ZeroDivisionError"

\* C8: once the result list holds n or more scenarios no further library call
\* is made and the list does not change; a call with n <= 0 returns an empty
\* list without any call.
C8_FullListSkips ==
    /\ [][(Running /\ Len(scenarios) >= n)
            => (calls' = calls /\ scenarios' = scenarios /\ pending' = pending)]_vars
    /\ [](( pc = "done" /\ n <= 0) => (calls = <<>> /\ scenarios = <<>>))

C8_Witness ==
    /\ pc = "done"
    /\ n >= 1
    /\ Len(scenarios) >= n
    /\ \E i \in 1..Len(results) :
          Len(results[i][2].overlapped_items) > 0 /\ EventsOf(i) = <<>>

\* C9: an iteration at a triplet with empty overlapped_items changes neither
\* the result list nor the call log and moves on to the next triplet.
C9_EmptyOverlapSkipped ==
    [][(pc = "loop" /\ idx <= Len(results)
          /\ Len(results[idx][2].overlapped_items) = 0)
        => ( /\ scenarios' = scenarios
             /\ calls' = calls
             /\ pending' = pending
             /\ idx' = idx + 1
             /\ pc' = "loop" )]_vars

C9_Witness ==
    /\ pc = "done"
    /\ \E i \in 1..Len(results) :
          /\ Len(results[i][2].overlapped_items) = 0
          /\ EventsOf(i) = <<>>
          /\ \E k \in 1..Len(results) : k > i /\ Appended(k)

\* C10: triplets are processed one after another in the order of results: at
\* most one prompt call is outstanding, a prompt call is issued only after
\* every earlier started triplet was appended, and the result list is the
\* concatenation of the appended samples in triplet order.
C10_Sequential ==
    /\ Cardinality(pending) <= 1
    /\ \A k \in 1..Len(calls) :
          calls[k].op = "prompt" =>
             \A j \in 1..(k - 1) :
                /\ calls[j].i < calls[k].i
                /\ \E m \in 1..(k - 1) :
                      calls[m].op = "extend" /\ calls[m].i = calls[j].i
    /\ Running => scenarios = SamplesUpTo(Len(results))

C10_Witness ==
    /\ pc = "done"
    /\ \E i, k \in 1..Len(results) :
          /\ i < k
          /\ Appended(i) /\ Len(SampleOf(i)) >= 1
          /\ Appended(k) /\ Len(SampleOf(k)) >= 1

====
